---- MODULE Spec2Model ----
(***************************************************************************)
(* CardGuard AI suspicious-activity detection (main.py: batch console run, *)
(* app.py: Streamlit dashboard).  The model covers load_data, the three    *)
(* rule evaluators, run_all_detection and the part of each driver that     *)
(* decides which alerts are presented.                                     *)
(*                                                                         *)
(* Timestamps are whole seconds since 1970-01-01 00:00:00, dates are whole *)
(* days since 1970-01-01, times of day are seconds since midnight.         *)
(* String literals of the source that are not ASCII are written as ASCII   *)
(* tags; the source literal is given in the comment next to each.          *)
(***************************************************************************)
EXTENDS Integers, Sequences, FiniteSets

VARIABLES
    driver,           \* "main" (main.py), "app" (app.py) or "call" (run_all_detection called on a frame)
    pc,               \* position of the driver script
    file,             \* data/transactions.csv as it is on disk
    transactions_df,  \* the DataFrame load_data returned / the frame handed to run_all_detection
    snapshot,         \* copy of the frame taken when it was handed to run_all_detection
    alerts_result,    \* value returned by the last run_all_detection
    prev_result,      \* value returned by the run before the last
    calls,            \* rule evaluators entered by the last run_all_detection, in order
    presented,        \* alert rows the driver has put on screen
    messages,         \* status lines the driver has put on screen
    runs,             \* number of run_all_detection calls made
    clock             \* the wall clock read by pd.Timestamp.now()

vars == <<driver, pc, file, transactions_df, snapshot, alerts_result, prev_result,
          calls, presented, messages, runs, clock>>

----------------------------------------------------------------------------
(* Bounds of the model *)

\* rows per frame in the families whose rules look at one row at a time
MaxRows == 2
\* rows per frame in the families for check_sequential_transactions
MaxSeqRows == 3
\* run_all_detection calls on one frame
MaxRuns == 2

----------------------------------------------------------------------------
(* Constants of the rules *)

\* app.py:116, main.py:80   df_sorted['time_diff'] <= 10
SEQUENTIAL_MINUTES == 10
\* app.py:129, main.py:92   df_sorted['time_diff'] <= 30
TRANSITION_MINUTES == 30
\* app.py:83, main.py:49    tx_time >= time(23, 0)
NIGHT_START_HOUR == 23
\* app.py:83, main.py:49    tx_time < time(6, 0)
NIGHT_END_HOUR == 6
\* app.py:93, main.py:59    day_of_week >= 5
WEEKEND_START == 5

\* rule_name literals
RULE_RESTRICTED == "restricted_mcc_use"        \* '제한 업종 사용'
RULE_LATE_NIGHT == "late_night_use"            \* '심야 시간 사용'
RULE_HOLIDAY    == "holiday_use"               \* '휴일 사용'
RULE_SEQUENTIAL == "same_merchant_consecutive" \* '동일 가맹점 연속 결제'
RULE_TRANSITION == "high_risk_mcc_transition"  \* '고위험 업종 이동 결제'

----------------------------------------------------------------------------
(* Calendar: what Timestamp.date(), .time() and .weekday() compute *)

SecondsPerDay == 24 * 60 * 60

\* days from 1970-01-01 to the proleptic Gregorian date y-m-d
DaysFromCivil(y, m, d) ==
    LET yy  == IF m <= 2 THEN y - 1 ELSE y
        era == yy \div 400
        yoe == yy - era * 400
        mp  == (m + 9) % 12
        doy == (153 * mp + 2) \div 5 + d - 1
        doe == yoe * 365 + yoe \div 4 - yoe \div 100 + doy
    IN  era * 146097 + doe - 719468

\* pd.to_datetime('y-m-d h:mi:s')
to_datetime(y, m, d, h, mi, s) ==
    DaysFromCivil(y, m, d) * SecondsPerDay + h * 3600 + mi * 60 + s

\* Timestamp.date()
date(ts) == ts \div SecondsPerDay
\* Timestamp.time()
time_of(ts) == ts % SecondsPerDay
\* datetime.time(h, mi)
time(h, mi) == h * 3600 + mi * 60
\* Timestamp.weekday(): Monday = 0 ... Sunday = 6; 1970-01-01 was a Thursday
weekday(ts) == (date(ts) + 3) % 7

----------------------------------------------------------------------------
(* Cells and frames *)

\* an mcc_code cell of dtype object (a Python str) and one of dtype int64
Str(s)   == [dtype |-> "object", v |-> s]
Int64(s) == [dtype |-> "int64",  v |-> s]

\* a cell that may be NaN / NaT (the first row of each groupby().shift(1) / .diff())
NaN       == [isna |-> TRUE,  v |-> 0]
NaNText   == [isna |-> TRUE,  v |-> ""]
NaNMcc    == [isna |-> TRUE,  v |-> Str("")]
Value(x)  == [isna |-> FALSE, v |-> x]

\* the list without its last code
PROHIBITED_MCCS_short == <<Str("5813"), Str("7995")>>

PROHIBITED_MCCS == <<Str("5813"), Str("7995"), Str("5814")>>
HOLIDAY_LIST    == <<date(to_datetime(2025, 12, 25, 0, 0, 0)), date(to_datetime(2026, 1, 1, 0, 0, 0))>>
RESTAURANT_MCC  == Str("5812")
NIGHTLIFE_MCCS  == <<Str("5813"), Str("5814")>>

\* Series.isin(list) / Python's  x in list
isin(x, list) == \E k \in 1..Len(list) : list[k] = x

\* pd.DataFrame()
EmptyFrame == [dt_dtype |-> "none", rows |-> <<>>]
\* DataFrame.empty
empty(df) == Len(df.rows) = 0

----------------------------------------------------------------------------
(* Alerts and the clock *)

\* the f-string of an alert: its fixed text (as a tag) and the values it formats
Detail(label, num, text) == [label |-> label, num |-> num, text |-> text]

\* the dict every evaluator appends
Alert(tx, rule, sev, det, now) ==
    [transaction_id |-> tx.transaction_id, rule_name |-> rule, severity |-> sev,
     detail |-> det, alert_dt |-> now]

\* the k-th pd.Timestamp.now() read of a call that starts at clk.t0: successive
\* reads are clk.tick apart (0: the clock did not advance between reads)
Now(clk, k) == clk.t0 + clk.tick * k
\* the clock after n reads
Advance(clk, n) == [clk EXCEPT !.t0 = clk.t0 + clk.tick * n]

----------------------------------------------------------------------------
(* 4.1 check_restricted_mcc *)

check_restricted_mcc(df, clk) ==
    LET restricted_tx == SelectSeq(df.rows, LAMBDA tx : isin(tx.mcc_code, PROHIBITED_MCCS))
    IN  [k \in 1..Len(restricted_tx) |->
            Alert(restricted_tx[k], RULE_RESTRICTED, "Critical",
                  Detail("prohibited_mcc", 0, <<restricted_tx[k].mcc_code.v>>), Now(clk, k))]

----------------------------------------------------------------------------
(* 4.2 check_irregular_time *)

\* the window taken as open at 23:00
is_late_night_after(tx) ==
    LET tx_time == time_of(tx.transaction_dt)
    IN  tx_time > time(NIGHT_START_HOUR, 0) \/ tx_time < time(NIGHT_END_HOUR, 0)

\* tx_time >= time(23, 0) or tx_time < time(6, 0)
is_late_night(tx) ==
    LET tx_time == time_of(tx.transaction_dt)
    IN  tx_time >= time(NIGHT_START_HOUR, 0) \/ tx_time < time(NIGHT_END_HOUR, 0)

\* the weekend taken to start after day 5
is_holiday_sunday(tx) ==
    LET tx_date     == date(tx.transaction_dt)
        day_of_week == weekday(tx.transaction_dt)
    IN  day_of_week > WEEKEND_START \/ isin(tx_date, HOLIDAY_LIST)

\* day_of_week >= 5 or tx_date in HOLIDAY_LIST
is_holiday(tx) ==
    LET tx_date     == date(tx.transaction_dt)
        day_of_week == weekday(tx.transaction_dt)
    IN  day_of_week >= WEEKEND_START \/ isin(tx_date, HOLIDAY_LIST)

\* the body of  for _, tx in df.iterrows()  from row i on
RECURSIVE irregular_time_loop(_, _, _, _)
irregular_time_loop(rows, i, alerts, clk) ==
    IF i > Len(rows) THEN alerts
    ELSE
        LET tx == rows[i]
            a1 == IF is_late_night(tx)
                  THEN Append(alerts, Alert(tx, RULE_LATE_NIGHT, "High",
                                  Detail("tx_time", time_of(tx.transaction_dt), <<>>),
                                  Now(clk, Len(alerts) + 1)))
                  ELSE alerts
            a2 == IF is_holiday(tx)
                  THEN Append(a1, Alert(tx, RULE_HOLIDAY, "High",
                                  Detail("tx_date", date(tx.transaction_dt), <<>>),
                                  Now(clk, Len(a1) + 1)))
                  ELSE a1
        IN  irregular_time_loop(rows, i + 1, a2, clk)

\* tx['transaction_dt'].time() raises AttributeError when the cell is a str,
\* which happens on the first row of a frame whose column was not parsed
check_irregular_time(df, clk) ==
    IF Len(df.rows) > 0 /\ df.dt_dtype # "datetime64"
    THEN [raised |-> TRUE,  alerts |-> <<>>]
    ELSE [raised |-> FALSE, alerts |-> irregular_time_loop(df.rows, 1, <<>>, clk)]

----------------------------------------------------------------------------
(* 4.3 check_sequential_transactions *)

\* order of the sort keys ['card_holder_id', 'transaction_dt']
KeyLE(a, b) ==
    \/ a.card_holder_id < b.card_holder_id
    \/ a.card_holder_id = b.card_holder_id /\ a.transaction_dt <= b.transaction_dt

\* x put behind the last row of the sorted frame whose key is not above x's
RECURSIVE insert_row(_, _)
insert_row(sorted, x) ==
    IF Len(sorted) = 0 THEN <<x>>
    ELSE IF KeyLE(sorted[Len(sorted)], x) THEN Append(sorted, x)
    ELSE Append(insert_row(SubSeq(sorted, 1, Len(sorted) - 1), x), sorted[Len(sorted)])

\* DataFrame.sort_values(by=[...]) on several keys: a stable (lexsort) sort
RECURSIVE sort_values(_)
sort_values(rows) ==
    IF Len(rows) = 0 THEN <<>>
    ELSE insert_row(sort_values(SubSeq(rows, 1, Len(rows) - 1)), rows[Len(rows)])

\* shift(1) without the groupby: the previous row whoever its holder
shift_index_ungrouped(rows, i) == i - 1

\* groupby('card_holder_id')[...].shift(1): position of the previous row of
\* the same group, 0 when the row is the first of its group
shift_index(rows, i) ==
    LET earlier == {j \in 1..(i - 1) : rows[j].card_holder_id = rows[i].card_holder_id}
    IN  IF earlier = {} THEN 0 ELSE CHOOSE j \in earlier : \A k \in earlier : k <= j

\* the three columns added to df_sorted; time_diff is kept in seconds
add_columns(rows) ==
    [i \in 1..Len(rows) |->
        LET p == shift_index(rows, i)
        IN  [tx            |-> rows[i],
             time_diff     |-> IF p = 0 THEN NaN
                               ELSE Value(rows[i].transaction_dt - rows[p].transaction_dt),
             prev_merchant |-> IF p = 0 THEN NaNText ELSE Value(rows[p].merchant_name),
             prev_mcc      |-> IF p = 0 THEN NaNMcc ELSE Value(rows[p].mcc_code)]]

\* time_diff (seconds / 60) <= minutes; a comparison with NaN is False
le_minutes(cell, minutes) == ~cell.isna /\ cell.v <= minutes * 60
\* Series == Series, elementwise; a comparison with NaN is False
eq_cell(x, cell) == ~cell.isna /\ x = cell.v

\* the 10 minutes taken as an open bound
sequential_mask_under(r) ==
    /\ ~r.time_diff.isna /\ r.time_diff.v < SEQUENTIAL_MINUTES * 60
    /\ eq_cell(r.tx.merchant_name, r.prev_merchant)

sequential_mask(r) ==
    le_minutes(r.time_diff, SEQUENTIAL_MINUTES) /\ eq_cell(r.tx.merchant_name, r.prev_merchant)

transition_mask(r) ==
    /\ le_minutes(r.time_diff, TRANSITION_MINUTES)
    /\ eq_cell(RESTAURANT_MCC, r.prev_mcc)
    /\ isin(r.tx.mcc_code, NIGHTLIFE_MCCS)

\* the sort done on the caller's frame itself
frame_after_sequential_in_place(df, df_sorted) ==
    [df EXCEPT !.rows = [i \in 1..Len(df_sorted) |-> df_sorted[i].tx]]

\* the frame the caller holds after the call: df_sorted is a copy, the
\* caller's frame keeps its rows and their order
frame_after_sequential(df, df_sorted) == df

check_sequential_transactions(df, clk) ==
    LET df_sorted == add_columns(sort_values(df.rows))
        seq_rows  == SelectSeq(df_sorted, sequential_mask)
        a1        == [k \in 1..Len(seq_rows) |->
                        Alert(seq_rows[k].tx, RULE_SEQUENTIAL, "Medium",
                              Detail("time_diff", seq_rows[k].time_diff.v, <<>>), Now(clk, k))]
        tr_rows   == SelectSeq(df_sorted, transition_mask)
        a2        == [k \in 1..Len(tr_rows) |->
                        Alert(tr_rows[k].tx, RULE_TRANSITION, "High",
                              Detail("mcc_transition", 0,
                                     <<tr_rows[k].prev_mcc.v.v, tr_rows[k].tx.mcc_code.v>>),
                              Now(clk, Len(a1) + k))]
    IN  [alerts |-> a1 \o a2, df |-> frame_after_sequential(df, df_sorted)]

----------------------------------------------------------------------------
(* 4.4 run_all_detection *)

\* an alert list that keeps, of the later evaluators, only the alerts of
\* transactions no earlier evaluator has flagged
extend_unflagged(all_alerts, more) ==
    SelectSeq(more, LAMBDA a : \A k \in 1..Len(all_alerts) :
                                  all_alerts[k].transaction_id # a.transaction_id)

\* all_alerts.extend(more)
extend(all_alerts, more) == all_alerts \o more

\* the three extend lines.  raised: an evaluator raised and the call did not
\* return; alerts: the list returned; df: the caller's frame after the call;
\* reads: the number of pd.Timestamp.now() reads
run_evaluators(df, clk) ==
    LET r1 == check_restricted_mcc(df, clk)
        r2 == check_irregular_time(df, Advance(clk, Len(r1)))
        r3 == check_sequential_transactions(df, Advance(clk, Len(r1) + Len(r2.alerts)))
        a1 == extend(<<>>, r1)
        a2 == extend(a1, r2.alerts)
        a3 == extend(a2, r3.alerts)
    IN  IF r2.raised
        THEN [raised |-> TRUE, alerts |-> <<>>, df |-> df, reads |-> Len(r1),
              calls |-> <<"check_restricted_mcc", "check_irregular_time">>]
        ELSE [raised |-> FALSE, alerts |-> a3, df |-> r3.df,
              reads |-> Len(r1) + Len(r2.alerts) + Len(r3.alerts),
              calls |-> <<"check_restricted_mcc", "check_irregular_time",
                          "check_sequential_transactions">>]

\* run_all_detection without  if df.empty: return []
run_all_detection_unguarded(df, clk) == run_evaluators(df, clk)

run_all_detection(df, clk) ==
    IF empty(df)
    THEN [raised |-> FALSE, alerts |-> <<>>, calls |-> <<>>, df |-> df, reads |-> 0]
    ELSE run_evaluators(df, clk)

----------------------------------------------------------------------------
(* load_data *)

\* the mcc_code texts pd.read_csv reads as integers
DigitTexts == {"5411", "5812", "5813", "5814", "7995"}

\* pd.read_csv gives a column int64 when every cell is a number, object otherwise
read_mcc(rows, text) ==
    IF \A k \in 1..Len(rows) : rows[k].mcc_code \in DigitTexts THEN Int64(text) ELSE Str(text)

\* the rows of the file as rows of a frame
read_rows(rows) ==
    [k \in 1..Len(rows) |->
        [transaction_id  |-> rows[k].transaction_id,
         card_holder_id  |-> rows[k].card_holder_id,
         transaction_dt  |-> rows[k].transaction_dt,
         merchant_name   |-> rows[k].merchant_name,
         mcc_code        |-> read_mcc(rows, rows[k].mcc_code)]]

all_parse(rows) == \A k \in 1..Len(rows) : rows[k].dt_parses

\* main.py: pd.read_csv(file_path, parse_dates=['transaction_dt']); only
\* FileNotFoundError is caught.  A header without the exact name raises
\* ValueError; a cell that is no timestamp leaves the column as str.
load_data_main(f) ==
    IF ~f.exists
    THEN [raised |-> FALSE, df |-> EmptyFrame, out |-> <<"error_file_not_found">>]
    ELSE IF f.header # "transaction_dt"
    THEN [raised |-> TRUE, df |-> EmptyFrame, out |-> <<>>]
    ELSE [raised |-> FALSE, out |-> <<>>,
          df |-> [dt_dtype |-> IF all_parse(f.rows) THEN "datetime64" ELSE "object",
                  rows |-> read_rows(f.rows)]]

\* app.py: column names lowered and stripped, pd.to_datetime on the column,
\* every exception caught and answered with an empty frame
load_data_app(f) ==
    IF ~f.exists
    THEN [raised |-> FALSE, df |-> EmptyFrame, out |-> <<"error_file_not_found">>]
    ELSE IF f.header = "absent"
    THEN [raised |-> FALSE, df |-> EmptyFrame, out |-> <<"error_columns", "error_loading">>]
    ELSE IF ~all_parse(f.rows)
    THEN [raised |-> FALSE, df |-> EmptyFrame, out |-> <<"error_loading">>]
    ELSE [raised |-> FALSE, out |-> <<>>,
          df |-> [dt_dtype |-> "datetime64", rows |-> read_rows(f.rows)]]

----------------------------------------------------------------------------
(* Presentation *)

Key(a) == <<a.transaction_id, a.rule_name>>

\* DataFrame.drop_duplicates(subset=['transaction_id', 'rule_name']): the
\* first row of every key is kept
drop_duplicates(alerts) ==
    LET first(k) == \A j \in 1..(k - 1) : Key(alerts[j]) # Key(alerts[k])
        kept     == {k \in 1..Len(alerts) : first(k)}
        RECURSIVE pick(_)
        pick(k) == IF k > Len(alerts) THEN <<>>
                   ELSE IF k \in kept THEN <<alerts[k]>> \o pick(k + 1) ELSE pick(k + 1)
    IN  pick(1)

\* main.py prints every row of pd.DataFrame(alerts_result)
printed_main(alerts) == alerts

\* app.py builds alerts_df, whose length and severities are the metrics shown;
\* the map and the detail table are a join of alerts_df with the locations
alerts_df_app(alerts) == drop_duplicates(alerts)

----------------------------------------------------------------------------
(* Inputs: the files on disk and the frames handed to run_all_detection *)

SeqsUpTo(S, n) == UNION {[1..k -> S] : k \in 0..n}

\* timestamps written as the source writes dates
Wed_Noon == to_datetime(2025, 12, 24, 12, 0, 0)

Body(holder, dt, merchant, mcc) ==
    [card_holder_id |-> holder, transaction_dt |-> dt, merchant_name |-> merchant, mcc_code |-> mcc]

\* a frame of parsed rows whose transaction_id is the row number
Frame(bodies) ==
    [dt_dtype |-> "datetime64",
     rows |-> [i \in 1..Len(bodies) |->
                 [transaction_id |-> i,
                  card_holder_id |-> bodies[i].card_holder_id,
                  transaction_dt |-> bodies[i].transaction_dt,
                  merchant_name  |-> bodies[i].merchant_name,
                  mcc_code       |-> bodies[i].mcc_code]]]

\* same and different merchants 5, 10 and 10 minutes 1 second apart, two holders
SameMerchantBodies ==
    {Body(1, Wed_Noon + d, "CafeA", Str("5411")) : d \in {0, 300, 600, 601}}
    \cup {Body(1, Wed_Noon + 300, "CafeB", Str("5411")), Body(2, Wed_Noon + 300, "CafeA", Str("5411"))}

\* restaurant and nightlife codes 15, 29, 30 and 30 minutes 1 second apart, two holders
TransitionBodies ==
    {Body(1, Wed_Noon, "Diner", Str("5812")),
     Body(1, Wed_Noon + 900, "Grill", Str("5812")),
     Body(1, Wed_Noon + 1740, "Pub", Str("5813")),
     Body(1, Wed_Noon + 1800, "Bar", Str("5814")),
     Body(1, Wed_Noon + 1801, "Club", Str("5813")),
     Body(2, Wed_Noon + 900, "Grill", Str("5812")),
     Body(2, Wed_Noon + 1740, "Pub", Str("5813"))}

\* every prohibited code, the restaurant code, another code, a code read as int64
MccBodies ==
    {Body(1, Wed_Noon, "Shop", m) :
        m \in {Str("5813"), Str("7995"), Str("5814"), Str("5812"), Str("5411"), Int64("5813")}}

\* the edges of the late-night window on a weekday, two of them on a Saturday
TimeBodies ==
    {Body(1, to_datetime(2025, 12, 24, h[1], h[2], h[3]), "Shop", Str("5411")) :
        h \in {<<22, 59, 59>>, <<23, 0, 0>>, <<5, 59, 59>>, <<6, 0, 0>>, <<12, 0, 0>>}}
    \cup {Body(1, to_datetime(2025, 12, 27, h, 0, 0), "Shop", Str("5411")) : h \in {6, 23}}

\* Wednesday 2025-12-24, the holiday Thursday 2025-12-25, Saturday to Monday
\* 2025-12-27..29 and the holiday Thursday 2026-01-01
DateBodies ==
    {Body(1, to_datetime(2025, 12, d, 12, 0, 0), "Shop", Str("5411")) : d \in {24, 25, 28, 29}}
    \cup {Body(1, to_datetime(2025, 12, d, 2, 0, 0), "Shop", Str("5411")) : d \in {25, 27}}
    \cup {Body(1, to_datetime(2026, 1, 1, 12, 0, 0), "Shop", Str("5411"))}
    \cup {Body(1, to_datetime(2025, 12, 25, h, 0, 0), "Bar", Str("5813")) : h \in {2, 12}}

Frames ==
    {Frame(b) : b \in SeqsUpTo(SameMerchantBodies, MaxSeqRows)}
    \cup {Frame(b) : b \in SeqsUpTo(TransitionBodies, MaxSeqRows)}
    \cup {Frame(b) : b \in SeqsUpTo(MccBodies, MaxRows)}
    \cup {Frame(b) : b \in SeqsUpTo(TimeBodies, MaxRows)}
    \cup {Frame(b) : b \in SeqsUpTo(DateBodies, MaxRows)}

\* a row of the csv file: transaction_dt is the instant its text denotes when
\* dt_parses, mcc_code is the text of the cell
FileRow(id, dt, parses, mcc) ==
    [transaction_id |-> id, card_holder_id |-> 1, transaction_dt |-> dt, dt_parses |-> parses,
     merchant_name |-> "Shop", mcc_code |-> mcc]

FileRows ==
    {FileRow(id, to_datetime(2025, 12, 27, 2, 0, 0), TRUE, "5813") : id \in {1, 2}}
    \cup {FileRow(id, Wed_Noon, TRUE, "BAR") : id \in {1, 2}}
    \cup {FileRow(id, 0, FALSE, "5813") : id \in {1, 2}}

NoFile == [exists |-> FALSE, header |-> "absent", rows |-> <<>>]

Files ==
    {NoFile}
    \cup {[exists |-> TRUE, header |-> h, rows |-> r] :
            h \in {"transaction_dt", "Transaction_DT", "absent"},
            r \in SeqsUpTo(FileRows, MaxRows)}

Ticks == {0, 1}

----------------------------------------------------------------------------
(* The state machine *)

Init ==
    /\ alerts_result = <<>>
    /\ prev_result = <<>>
    /\ calls = <<>>
    /\ presented = <<>>
    /\ messages = <<>>
    /\ runs = 0
    /\ clock = 0
    /\ \/ /\ driver \in {"main", "app"}
          /\ pc = "start"
          /\ file \in Files
          /\ transactions_df = EmptyFrame
          /\ snapshot = EmptyFrame
       \/ /\ driver = "call"
          /\ pc = "call"
          /\ file = NoFile
          /\ transactions_df \in Frames
          /\ snapshot = transactions_df

\* main.py:125   transactions_df = load_data()
LoadMain ==
    /\ driver = "main" /\ pc = "start"
    /\ LET r == load_data_main(file)
       IN  IF r.raised
           THEN /\ pc' = "crashed"
                /\ messages' = Append(messages, "traceback")
                /\ UNCHANGED <<transactions_df, snapshot>>
           ELSE /\ pc' = "loaded"
                /\ messages' = messages \o r.out
                /\ transactions_df' = r.df
                /\ snapshot' = r.df
    /\ UNCHANGED <<driver, file, alerts_result, prev_result, calls, presented, runs, clock>>

\* main.py:128   alerts_result = run_all_detection(transactions_df)
DetectMain ==
    /\ driver = "main" /\ pc = "loaded"
    /\ \E tick \in Ticks :
        LET r == run_all_detection(transactions_df, [t0 |-> clock, tick |-> tick])
        IN  /\ calls' = r.calls
            /\ runs' = runs + 1
            /\ clock' = clock + tick * r.reads
            /\ transactions_df' = r.df
            /\ IF r.raised
               THEN /\ pc' = "crashed"
                    /\ messages' = Append(messages, "traceback")
                    /\ UNCHANGED <<alerts_result, prev_result>>
               ELSE /\ pc' = "detected"
                    /\ alerts_result' = r.alerts
                    /\ prev_result' = alerts_result
                    /\ UNCHANGED messages
    /\ UNCHANGED <<driver, file, snapshot, presented>>

\* main.py:131-139   the table of alerts, or the line that there are none
PresentMain ==
    /\ driver = "main" /\ pc = "detected"
    /\ pc' = "done"
    /\ IF Len(alerts_result) > 0
       THEN /\ presented' = printed_main(alerts_result)
            /\ messages' = Append(messages, "alert_table")
       ELSE /\ presented' = <<>>
            /\ messages' = Append(messages, "no_alerts")
    /\ UNCHANGED <<driver, file, transactions_df, snapshot, alerts_result, prev_result,
                   calls, runs, clock>>

\* app.py:190   transactions_df = load_data('data/transactions.csv')
LoadApp ==
    /\ driver = "app" /\ pc = "start"
    /\ LET r == load_data_app(file)
       IN  /\ pc' = "loaded"
           /\ messages' = messages \o r.out
           /\ transactions_df' = r.df
           /\ snapshot' = r.df
    /\ UNCHANGED <<driver, file, alerts_result, prev_result, calls, presented, runs, clock>>

\* app.py:192-193   if transactions_df.empty: st.info(...)
InfoApp ==
    /\ driver = "app" /\ pc = "loaded"
    /\ empty(transactions_df)
    /\ pc' = "done"
    /\ messages' = Append(messages, "info_load_failed_or_empty")
    /\ UNCHANGED <<driver, file, transactions_df, snapshot, alerts_result, prev_result,
                   calls, presented, runs, clock>>

\* app.py:194-199   alerts_result = run_all_detection(transactions_df); the transaction table
DetectApp ==
    /\ driver = "app" /\ pc = "loaded"
    /\ ~empty(transactions_df)
    /\ \E tick \in Ticks :
        LET r == run_all_detection(transactions_df, [t0 |-> clock, tick |-> tick])
        IN  /\ calls' = r.calls
            /\ runs' = runs + 1
            /\ clock' = clock + tick * r.reads
            /\ transactions_df' = r.df
            /\ IF r.raised
               THEN /\ pc' = "crashed"
                    /\ messages' = Append(messages, "traceback")
                    /\ UNCHANGED <<alerts_result, prev_result>>
               ELSE /\ pc' = "detected"
                    /\ alerts_result' = r.alerts
                    /\ prev_result' = alerts_result
                    /\ messages' = Append(messages, "transaction_table")
    /\ UNCHANGED <<driver, file, snapshot, presented>>

\* app.py:204-307   alerts_df with duplicates dropped, its metrics and rows, or the success line
PresentApp ==
    /\ driver = "app" /\ pc = "detected"
    /\ pc' = "done"
    /\ IF Len(alerts_result) > 0
       THEN /\ presented' = alerts_df_app(alerts_result)
            /\ messages' = Append(messages, "alert_metrics_map_table")
       ELSE /\ presented' = <<>>
            /\ messages' = Append(messages, "success_no_alerts")
    /\ UNCHANGED <<driver, file, transactions_df, snapshot, alerts_result, prev_result,
                   calls, runs, clock>>

\* run_all_detection(df) called on a frame, possibly again on the same frame
Call ==
    /\ driver = "call" /\ pc = "call"
    /\ runs < MaxRuns
    /\ \E tick \in Ticks :
        LET r == run_all_detection(transactions_df, [t0 |-> clock, tick |-> tick])
        IN  /\ ~r.raised
            /\ calls' = r.calls
            /\ runs' = runs + 1
            /\ clock' = clock + tick * r.reads
            /\ transactions_df' = r.df
            /\ alerts_result' = r.alerts
            /\ prev_result' = alerts_result
    /\ UNCHANGED <<driver, pc, file, snapshot, presented, messages>>

Next ==
    \/ LoadMain
    \/ DetectMain
    \/ PresentMain
    \/ LoadApp
    \/ InfoApp
    \/ DetectApp
    \/ PresentApp
    \/ Call

Spec == Init /\ [][Next]_vars

----------------------------------------------------------------------------
(* Vocabulary of the properties *)

Rows == transactions_df.rows

\* the last run_all_detection returned, and alerts_result is what it returned
Returned == pc \in {"detected", "done"} \/ (pc = "call" /\ runs > 0)

\* number of alerts of a rule that name a transaction_id
Count(alerts, id, rule) ==
    Cardinality({k \in 1..Len(alerts) :
                    alerts[k].transaction_id = id /\ alerts[k].rule_name = rule})

Ids == {Rows[i].transaction_id : i \in 1..Len(Rows)}

AlertsOf(rule) == {k \in 1..Len(alerts_result) : alerts_result[k].rule_name = rule}

\* row j comes before row i in the order of one card holder: by transaction_dt,
\* rows of equal transaction_dt in the order of the input
Before(j, i) ==
    /\ Rows[j].card_holder_id = Rows[i].card_holder_id
    /\ \/ Rows[j].transaction_dt < Rows[i].transaction_dt
       \/ Rows[j].transaction_dt = Rows[i].transaction_dt /\ j < i

\* row j is the immediately preceding transaction of the holder of row i
Precedes(j, i) ==
    /\ Before(j, i)
    /\ ~\E q \in 1..Len(Rows) : Before(j, q) /\ Before(q, i)

Gap(j, i) == Rows[i].transaction_dt - Rows[j].transaction_dt

NoRepeatedKey(alerts) ==
    \A j, k \in 1..Len(alerts) : j # k => Key(alerts[j]) # Key(alerts[k])

----------------------------------------------------------------------------
(* C1 *)

\* C1: the alert list run_all_detection returns, and the alert rows each driver
\* presents, hold no two alerts with the same (transaction_id, rule_name).
C1_AlertsDeduplicated ==
    /\ Returned => NoRepeatedKey(alerts_result)
    /\ pc = "done" => NoRepeatedKey(presented)

----------------------------------------------------------------------------
(* C2 *)

SameMerchantDue(i) ==
    \E j \in 1..Len(Rows) :
        /\ Precedes(j, i)
        /\ Gap(j, i) <= 10 * 60
        /\ Rows[i].merchant_name = Rows[j].merchant_name

\* C2: the Medium same-merchant alert is emitted for a transaction exactly when
\* its holder's immediately preceding transaction is at most 10 minutes earlier
\* and at the same merchant; it names the later transaction, once.
C2_SameMerchantIff ==
    Returned =>
        /\ \A id \in Ids :
              Count(alerts_result, id, RULE_SEQUENTIAL) =
                  Cardinality({i \in 1..Len(Rows) : Rows[i].transaction_id = id /\ SameMerchantDue(i)})
        /\ \A k \in AlertsOf(RULE_SEQUENTIAL) :
              alerts_result[k].severity = "Medium" /\ alerts_result[k].transaction_id \in Ids

\* a pair exactly 10 minutes apart at one merchant: the later row has the alert,
\* the earlier one, first of its holder, has none
C2_Witness ==
    /\ Returned
    /\ \E j, i \in 1..Len(Rows) :
          /\ Precedes(j, i)
          /\ Gap(j, i) = 10 * 60
          /\ Rows[i].merchant_name = Rows[j].merchant_name
          /\ ~\E q \in 1..Len(Rows) : Before(q, j)
          /\ Count(alerts_result, Rows[i].transaction_id, RULE_SEQUENTIAL) = 1
          /\ Count(alerts_result, Rows[j].transaction_id, RULE_SEQUENTIAL) = 0

----------------------------------------------------------------------------
(* C3 *)

TransitionDue(i) ==
    \E j \in 1..Len(Rows) :
        /\ Precedes(j, i)
        /\ Rows[j].mcc_code = Str("5812")
        /\ Rows[i].mcc_code \in {Str("5813"), Str("5814")}
        /\ Gap(j, i) <= 30 * 60

\* C3: the High transition alert is emitted for a transaction exactly when its
\* holder's immediately preceding transaction has mcc_code '5812', its own
\* mcc_code is '5813' or '5814' and the gap is at most 30 minutes; rows of
\* other holders neither suppress nor create it.
C3_TransitionIff ==
    Returned =>
        /\ \A id \in Ids :
              Count(alerts_result, id, RULE_TRANSITION) =
                  Cardinality({i \in 1..Len(Rows) : Rows[i].transaction_id = id /\ TransitionDue(i)})
        /\ \A k \in AlertsOf(RULE_TRANSITION) :
              alerts_result[k].severity = "High" /\ alerts_result[k].transaction_id \in Ids

\* restaurant, then another holder's row (later in the input and in time), then
\* nightlife within 30 minutes: the alert is on the third row
C3_Witness ==
    /\ Returned
    /\ \E j, q, i \in 1..Len(Rows) :
          /\ j < q /\ q < i
          /\ Rows[q].card_holder_id # Rows[i].card_holder_id
          /\ Rows[j].transaction_dt < Rows[q].transaction_dt
          /\ Rows[q].transaction_dt < Rows[i].transaction_dt
          /\ Precedes(j, i)
          /\ Rows[j].mcc_code = Str("5812")
          /\ Count(alerts_result, Rows[i].transaction_id, RULE_TRANSITION) = 1
          /\ Count(alerts_result, Rows[q].transaction_id, RULE_TRANSITION) = 0

----------------------------------------------------------------------------
(* C4 *)

Prohibited(i) == Rows[i].mcc_code \in {Str("5813"), Str("7995"), Str("5814")}

\* C4: one Critical restricted-category alert for every transaction whose
\* mcc_code is '5813', '7995' or '5814', none for any other; each carries the
\* transaction's id and a detail with its mcc_code.
C4_RestrictedExact ==
    Returned =>
        /\ \A id \in Ids :
              Count(alerts_result, id, RULE_RESTRICTED) =
                  Cardinality({i \in 1..Len(Rows) : Rows[i].transaction_id = id /\ Prohibited(i)})
        /\ \A k \in AlertsOf(RULE_RESTRICTED) :
              /\ alerts_result[k].severity = "Critical"
              /\ \E i \in 1..Len(Rows) :
                    /\ Prohibited(i)
                    /\ alerts_result[k].transaction_id = Rows[i].transaction_id
                    /\ alerts_result[k].detail.text = <<Rows[i].mcc_code.v>>

\* a frame with a prohibited row and a row that is not: one alert, on the first
C4_Witness ==
    /\ Returned
    /\ \E i, j \in 1..Len(Rows) :
          /\ Prohibited(i) /\ ~Prohibited(j)
          /\ Count(alerts_result, Rows[i].transaction_id, RULE_RESTRICTED) = 1
          /\ Count(alerts_result, Rows[j].transaction_id, RULE_RESTRICTED) = 0
          /\ Cardinality(AlertsOf(RULE_RESTRICTED)) = 1

----------------------------------------------------------------------------
(* C5 *)

SecondOfDay(i) == Rows[i].transaction_dt % 86400

LateNightDue(i) == SecondOfDay(i) >= 23 * 3600 \/ SecondOfDay(i) < 6 * 3600

\* C5: the High late-night alert is emitted for a transaction exactly when its
\* time of day is at or after 23:00 or before 06:00, whatever its date and
\* whatever the other transactions.
C5_LateNightIff ==
    Returned =>
        /\ \A id \in Ids :
              Count(alerts_result, id, RULE_LATE_NIGHT) =
                  Cardinality({i \in 1..Len(Rows) : Rows[i].transaction_id = id /\ LateNightDue(i)})
        /\ \A k \in AlertsOf(RULE_LATE_NIGHT) : alerts_result[k].severity = "High"

\* rows at 23:00:00 and at 06:00:00: the alert is on the first only
C5_Witness ==
    /\ Returned
    /\ \E i, j \in 1..Len(Rows) :
          /\ SecondOfDay(i) = 23 * 3600
          /\ SecondOfDay(j) = 6 * 3600
          /\ Count(alerts_result, Rows[i].transaction_id, RULE_LATE_NIGHT) = 1
          /\ Count(alerts_result, Rows[j].transaction_id, RULE_LATE_NIGHT) = 0

----------------------------------------------------------------------------
(* C6 *)

\* days since 1970-01-01 of Saturday 2025-12-27, of 2025-12-25 and of 2026-01-01
DayNumber(i) == Rows[i].transaction_dt \div 86400
IsWeekend(i) == (DayNumber(i) - 20449) % 7 \in {0, 1}
HolidayDue(i) == IsWeekend(i) \/ DayNumber(i) \in {20447, 20454}

\* C6: the High holiday alert is emitted for a transaction exactly when it falls
\* on a Saturday, a Sunday, 2025-12-25 or 2026-01-01, independently of the
\* late-night alert, so a transaction has 0, 1 or 2 irregular-time alerts.
C6_HolidayIff ==
    Returned =>
        /\ \A id \in Ids :
              /\ Count(alerts_result, id, RULE_HOLIDAY) =
                    Cardinality({i \in 1..Len(Rows) : Rows[i].transaction_id = id /\ HolidayDue(i)})
              /\ Count(alerts_result, id, RULE_HOLIDAY) + Count(alerts_result, id, RULE_LATE_NIGHT) =
                    Cardinality({i \in 1..Len(Rows) : Rows[i].transaction_id = id /\ HolidayDue(i)})
                    + Cardinality({i \in 1..Len(Rows) : Rows[i].transaction_id = id /\ LateNightDue(i)})
        /\ \A k \in AlertsOf(RULE_HOLIDAY) : alerts_result[k].severity = "High"

\* a weekday holiday by day (holiday alert only) next to a weekend night (both alerts)
C6_Witness ==
    /\ Returned
    /\ \E i, j \in 1..Len(Rows) :
          /\ DayNumber(i) = 20447 /\ ~LateNightDue(i)
          /\ Count(alerts_result, Rows[i].transaction_id, RULE_HOLIDAY) = 1
          /\ Count(alerts_result, Rows[i].transaction_id, RULE_LATE_NIGHT) = 0
          /\ IsWeekend(j) /\ LateNightDue(j)
          /\ Count(alerts_result, Rows[j].transaction_id, RULE_HOLIDAY) = 1
          /\ Count(alerts_result, Rows[j].transaction_id, RULE_LATE_NIGHT) = 1

----------------------------------------------------------------------------
(* C7 *)

LoadError(f) ==
    \/ ~f.exists
    \/ f.header = "absent"
    \/ \E k \in 1..Len(f.rows) : ~f.rows[k].dt_parses

\* C7: after a load error (no file, no transaction_dt column, a transaction_dt
\* that is no timestamp) neither driver enters a rule evaluator, and no alert
\* is produced or presented.
C7_LoadErrorTerminal ==
    (driver \in {"main", "app"} /\ LoadError(file)) =>
        /\ calls = <<>>
        /\ alerts_result = <<>>
        /\ presented = <<>>

----------------------------------------------------------------------------
(* C8 *)

AnyClock == [t0 |-> 0, tick |-> 0]

\* C8: the alerts of a transaction are those of the three evaluators together;
\* a transaction of 2025-12-25 with mcc_code '5813' has a Critical
\* restricted-category and a High holiday alert, and alone in the frame at
\* 02:00 it has exactly three alerts of three rule names.
C8_NoSuppression ==
    Returned =>
        /\ LET r1 == check_restricted_mcc(transactions_df, AnyClock)
               r2 == check_irregular_time(transactions_df, AnyClock).alerts
               r3 == check_sequential_transactions(transactions_df, AnyClock).alerts
           IN  \A id \in Ids :
               \A rule \in {RULE_RESTRICTED, RULE_LATE_NIGHT, RULE_HOLIDAY, RULE_SEQUENTIAL, RULE_TRANSITION} :
                  Count(alerts_result, id, rule) =
                      Count(r1, id, rule) + Count(r2, id, rule) + Count(r3, id, rule)
        /\ \A i \in 1..Len(Rows) :
              (DayNumber(i) = 20447 /\ Rows[i].mcc_code = Str("5813")) =>
                  /\ \E k \in AlertsOf(RULE_RESTRICTED) :
                        /\ alerts_result[k].transaction_id = Rows[i].transaction_id
                        /\ alerts_result[k].severity = "Critical"
                  /\ \E k \in AlertsOf(RULE_HOLIDAY) :
                        /\ alerts_result[k].transaction_id = Rows[i].transaction_id
                        /\ alerts_result[k].severity = "High"
                  /\ (Len(Rows) = 1 /\ SecondOfDay(i) = 2 * 3600) =>
                        /\ Len(alerts_result) = 3
                        /\ \A k \in 1..3 : alerts_result[k].transaction_id = Rows[i].transaction_id
                        /\ {alerts_result[k].rule_name : k \in 1..3} =
                              {RULE_RESTRICTED, RULE_LATE_NIGHT, RULE_HOLIDAY}

\* the single transaction of 2025-12-25 02:00 with mcc_code '5813' and its three alerts
C8_Witness ==
    /\ Returned
    /\ Len(Rows) = 1
    /\ DayNumber(1) = 20447 /\ SecondOfDay(1) = 2 * 3600 /\ Rows[1].mcc_code = Str("5813")
    /\ Len(alerts_result) = 3

----------------------------------------------------------------------------
(* C9 *)

\* C9: on an empty frame run_all_detection returns the empty list, enters no
\* evaluator and raises nothing; main.py then prints that there are no alerts.
C9_EmptyInput ==
    (runs > 0 /\ empty(transactions_df)) =>
        /\ pc # "crashed"
        /\ alerts_result = <<>>
        /\ calls = <<>>
        /\ (driver = "main" /\ pc = "detected") => ENABLED PresentMain
        /\ (driver = "main" /\ pc = "done") =>
              /\ presented = <<>>
              /\ messages[Len(messages)] = "no_alerts"

\* main.py ran to its end on a file that exists and has no rows
C9_Witness ==
    /\ driver = "main" /\ pc = "done"
    /\ file.exists /\ runs = 1
    /\ empty(transactions_df)
    /\ messages = <<"no_alerts">>

----------------------------------------------------------------------------
(* C10 *)

Keys(alerts) == {Key(alerts[k]) : k \in 1..Len(alerts)}

====
